---------------------------- MODULE Spec2Model ----------------------------
(***************************************************************************)
(* Model of the legal-text analysis pipeline of src/api.py                 *)
(* (class AnalisadorJuridico and the /api/processar endpoint).             *)
(*                                                                         *)
(* Texts are sequences of one-character strings, so that the regular       *)
(* expressions of extrair_citacoes_legais and the substring tests          *)
(* ('Lei' in texto, ...) are computed character by character, as Python    *)
(* computes them.  Long documents fetched from the portal are represented  *)
(* by their length in characters; a slice s[:n] maps a length to           *)
(* min(length, n).  The four characters outside ASCII that the patterns    *)
(* and the law names use are written "o'" (ó), "O'" (Ó), "^o" (º) and      *)
(* "^a" (ª); each is one character of the text.                            *)
(***************************************************************************)
EXTENDS Integers, Sequences, FiniteSets, TLC

(***************************************************************************)
(* Bounds of the model.                                                    *)
(***************************************************************************)
\* a document is the concatenation of at most MaxFrags phrases of Frases
MaxFrags == 2
\* longest plain text (in characters) a portal page holds in the model
MaxTamanho == 5002

(***************************************************************************)
(* Character strings.                                                      *)
(***************************************************************************)
TxtCDC == <<"C", "D", "C">>
TxtCC == <<"C", "C">>
TxtLei == <<"L", "e", "i">>
TxtCodigo == <<"C", "o'", "d", "i", "g", "o">>
TxtCodigoCivil == <<"C", "o'", "d", "i", "g", "o", " ", "C", "i", "v", "i", "l">>
TxtCodigoPenal == <<"C", "o'", "d", "i", "g", "o", " ", "P", "e", "n", "a", "l">>
TxtCodigoConsumidor ==
    <<"C", "o'", "d", "i", "g", "o", " ", "d", "e", " ", "D", "e", "f", "e", "s", "a",
      " ", "d", "o", " ", "C", "o", "n", "s", "u", "m", "i", "d", "o", "r">>
TxtLei8078 == <<"L", "e", "i", " ", "8", ".", "0", "7", "8", "/", "9", "0">>
TxtLei10406 ==
    <<"L", "e", "i", " ", "1", "0", ".", "4", "0", "6", "/", "2", "0", "0", "2">>
TxtArtigo6 == <<"a", "r", "t", "i", "g", "o", " ", "6", "^o">>
TxtMulta == <<"m", "u", "l", "t", "a", " ", "d", "e", " ", "2", "%">>
\* an article cited with a dotless i (U+0131), a CRLF line end after the
\* word and a fullwidth digit (U+FF15)
TxtArtigoQuebra == <<"a", "r", "t", "\\u0131", "g", "o", "\r", "\n", "\\uff15", "^o">>

\* the phrases documents are built from (joined by single spaces)
Frases ==
    { TxtCDC, TxtCodigoConsumidor, TxtCodigoCivil, TxtCC, TxtLei8078,
      TxtLei10406, TxtArtigo6, TxtCodigoPenal, TxtMulta, TxtArtigoQuebra }

RECURSIVE Juntar(_)
Juntar(fs) ==
    IF fs = <<>> THEN <<>>
    ELSE IF Len(fs) = 1 THEN fs[1]
    ELSE fs[1] \o <<" ">> \o Juntar(Tail(fs))

SeqsAte(S, n) == UNION { [1..k -> S] : k \in 0..n }

Textos == { Juntar(fs) : fs \in SeqsAte(Frases, MaxFrags) }

\* Python's  needle in hay  for str (case sensitive)
Contains(hay, needle) ==
    \E i \in 1..(Len(hay) - Len(needle) + 1) :
        SubSeq(hay, i, i + Len(needle) - 1) = needle

\* the characters str.isspace() holds for: those str.strip() drops and \s of
\* a str pattern matches.  The ones TLA+ has no escape for are written by
\* their Python escape, each one character of the text.
Branco ==
    {" ", "\t", "\n", "\r", "\f", "\\v", "\\x1c", "\\x1d", "\\x1e", "\\x1f",
     "\\x85", "\\xa0", "\\u1680", "\\u2000", "\\u2001", "\\u2002", "\\u2003",
     "\\u2004", "\\u2005", "\\u2006", "\\u2007", "\\u2008", "\\u2009", "\\u200a",
     "\\u2028", "\\u2029", "\\u202f", "\\u205f", "\\u3000"}

\* Python's str.strip(): drops leading and trailing whitespace

RECURSIVE LStrip(_)
LStrip(s) == IF s # <<>> /\ s[1] \in Branco THEN LStrip(Tail(s)) ELSE s

RECURSIVE RStrip(_)
RStrip(s) ==
    IF s # <<>> /\ s[Len(s)] \in Branco THEN RStrip(SubSeq(s, 1, Len(s) - 1)) ELSE s

Strip(s) == RStrip(LStrip(s))

\* the length of s[:n] for a string of length len
Fatia(len, n) == IF len < n THEN len ELSE n

(***************************************************************************)
(* Regular expressions of extrair_citacoes_legais (re.IGNORECASE).         *)
(* A pattern is a sequence of alternatives; an alternative is a sequence   *)
(* of items [cs, min, many]: a character class, whether at least one       *)
(* character is required, and whether it repeats.  Under re.IGNORECASE a   *)
(* letter's class holds both of its cases.  In every pattern of            *)
(* the source adjacent repeated classes are disjoint, so the greedy scan   *)
(* below finds exactly the match the backtracking engine finds.            *)
(***************************************************************************)
\* re.IGNORECASE: a letter of a pattern matches both of its cases
Maiuscula ==
    [a |-> "A", b |-> "B", c |-> "C", d |-> "D", e |-> "E", f |-> "F", g |-> "G",
     h |-> "H", i |-> "I", j |-> "J", k |-> "K", l |-> "L", m |-> "M", n |-> "N",
     o |-> "O", p |-> "P", q |-> "Q", r |-> "R", s |-> "S", t |-> "T", u |-> "U",
     v |-> "V", w |-> "W", x |-> "X", y |-> "Y", z |-> "Z"] @@ ("o'" :> "O'")

\* the characters beyond its two cases a letter matches under re.IGNORECASE:
\* i also matches U+0130 and U+0131, s also matches U+017F
OutrasCaixas == ("i" :> {"\\u0130", "\\u0131"}) @@ ("s" :> {"\\u017f"})

Ambas(c) ==
    (IF c \in DOMAIN Maiuscula THEN {c, Maiuscula[c]} ELSE {c})
    \cup (IF c \in DOMAIN OutrasCaixas THEN OutrasCaixas[c] ELSE {})

\* the decimal digits of the other scripts, which \d of a str pattern matches
\* as well; each is written by its Python escape and is one character
DigitoOutros ==
    {"\\u0660", "\\u0661", "\\u0662", "\\u0663", "\\u0664", "\\u0665", "\\u0666",
     "\\u0667", "\\u0668", "\\u0669", "\\u06f0", "\\u06f1", "\\u06f2", "\\u06f3",
     "\\u06f4", "\\u06f5", "\\u06f6", "\\u06f7", "\\u06f8", "\\u06f9", "\\u07c0",
     "\\u07c1", "\\u07c2", "\\u07c3", "\\u07c4", "\\u07c5", "\\u07c6", "\\u07c7",
     "\\u07c8", "\\u07c9", "\\u0966", "\\u0967", "\\u0968", "\\u0969", "\\u096a",
     "\\u096b", "\\u096c", "\\u096d", "\\u096e", "\\u096f", "\\u09e6", "\\u09e7",
     "\\u09e8", "\\u09e9", "\\u09ea", "\\u09eb", "\\u09ec", "\\u09ed", "\\u09ee",
     "\\u09ef", "\\u0a66", "\\u0a67", "\\u0a68", "\\u0a69", "\\u0a6a", "\\u0a6b",
     "\\u0a6c", "\\u0a6d", "\\u0a6e", "\\u0a6f", "\\u0ae6", "\\u0ae7", "\\u0ae8",
     "\\u0ae9", "\\u0aea", "\\u0aeb", "\\u0aec", "\\u0aed", "\\u0aee", "\\u0aef",
     "\\u0b66", "\\u0b67", "\\u0b68", "\\u0b69", "\\u0b6a", "\\u0b6b", "\\u0b6c",
     "\\u0b6d", "\\u0b6e", "\\u0b6f", "\\u0be6", "\\u0be7", "\\u0be8", "\\u0be9",
     "\\u0bea", "\\u0beb", "\\u0bec", "\\u0bed", "\\u0bee", "\\u0bef", "\\u0c66",
     "\\u0c67", "\\u0c68", "\\u0c69", "\\u0c6a", "\\u0c6b", "\\u0c6c", "\\u0c6d",
     "\\u0c6e", "\\u0c6f", "\\u0ce6", "\\u0ce7", "\\u0ce8", "\\u0ce9", "\\u0cea",
     "\\u0ceb", "\\u0cec", "\\u0ced", "\\u0cee", "\\u0cef", "\\u0d66", "\\u0d67",
     "\\u0d68", "\\u0d69", "\\u0d6a", "\\u0d6b", "\\u0d6c", "\\u0d6d", "\\u0d6e",
     "\\u0d6f", "\\u0de6", "\\u0de7", "\\u0de8", "\\u0de9", "\\u0dea", "\\u0deb",
     "\\u0dec", "\\u0ded", "\\u0dee", "\\u0def", "\\u0e50", "\\u0e51", "\\u0e52",
     "\\u0e53", "\\u0e54", "\\u0e55", "\\u0e56", "\\u0e57", "\\u0e58", "\\u0e59",
     "\\u0ed0", "\\u0ed1", "\\u0ed2", "\\u0ed3", "\\u0ed4", "\\u0ed5", "\\u0ed6",
     "\\u0ed7", "\\u0ed8", "\\u0ed9", "\\u0f20", "\\u0f21", "\\u0f22", "\\u0f23",
     "\\u0f24", "\\u0f25", "\\u0f26", "\\u0f27", "\\u0f28", "\\u0f29", "\\u1040",
     "\\u1041", "\\u1042", "\\u1043", "\\u1044", "\\u1045", "\\u1046", "\\u1047",
     "\\u1048", "\\u1049", "\\u1090", "\\u1091", "\\u1092", "\\u1093", "\\u1094",
     "\\u1095", "\\u1096", "\\u1097", "\\u1098", "\\u1099", "\\u17e0", "\\u17e1",
     "\\u17e2", "\\u17e3", "\\u17e4", "\\u17e5", "\\u17e6", "\\u17e7", "\\u17e8",
     "\\u17e9", "\\u1810", "\\u1811", "\\u1812", "\\u1813", "\\u1814", "\\u1815",
     "\\u1816", "\\u1817", "\\u1818", "\\u1819", "\\u1946", "\\u1947", "\\u1948",
     "\\u1949", "\\u194a", "\\u194b", "\\u194c", "\\u194d", "\\u194e", "\\u194f",
     "\\u19d0", "\\u19d1", "\\u19d2", "\\u19d3", "\\u19d4", "\\u19d5", "\\u19d6",
     "\\u19d7", "\\u19d8", "\\u19d9", "\\u1a80", "\\u1a81", "\\u1a82", "\\u1a83",
     "\\u1a84", "\\u1a85", "\\u1a86", "\\u1a87", "\\u1a88", "\\u1a89", "\\u1a90",
     "\\u1a91", "\\u1a92", "\\u1a93", "\\u1a94", "\\u1a95", "\\u1a96", "\\u1a97",
     "\\u1a98", "\\u1a99", "\\u1b50", "\\u1b51", "\\u1b52", "\\u1b53", "\\u1b54",
     "\\u1b55", "\\u1b56", "\\u1b57", "\\u1b58", "\\u1b59", "\\u1bb0", "\\u1bb1",
     "\\u1bb2", "\\u1bb3", "\\u1bb4", "\\u1bb5", "\\u1bb6", "\\u1bb7", "\\u1bb8",
     "\\u1bb9", "\\u1c40", "\\u1c41", "\\u1c42", "\\u1c43", "\\u1c44", "\\u1c45",
     "\\u1c46", "\\u1c47", "\\u1c48", "\\u1c49", "\\u1c50", "\\u1c51", "\\u1c52",
     "\\u1c53", "\\u1c54", "\\u1c55", "\\u1c56", "\\u1c57", "\\u1c58", "\\u1c59",
     "\\ua620", "\\ua621", "\\ua622", "\\ua623", "\\ua624", "\\ua625", "\\ua626",
     "\\ua627", "\\ua628", "\\ua629", "\\ua8d0", "\\ua8d1", "\\ua8d2", "\\ua8d3",
     "\\ua8d4", "\\ua8d5", "\\ua8d6", "\\ua8d7", "\\ua8d8", "\\ua8d9", "\\ua900",
     "\\ua901", "\\ua902", "\\ua903", "\\ua904", "\\ua905", "\\ua906", "\\ua907",
     "\\ua908", "\\ua909", "\\ua9d0", "\\ua9d1", "\\ua9d2", "\\ua9d3", "\\ua9d4",
     "\\ua9d5", "\\ua9d6", "\\ua9d7", "\\ua9d8", "\\ua9d9", "\\ua9f0", "\\ua9f1",
     "\\ua9f2", "\\ua9f3", "\\ua9f4", "\\ua9f5", "\\ua9f6", "\\ua9f7", "\\ua9f8",
     "\\ua9f9", "\\uaa50", "\\uaa51", "\\uaa52", "\\uaa53", "\\uaa54", "\\uaa55",
     "\\uaa56", "\\uaa57", "\\uaa58", "\\uaa59", "\\uabf0", "\\uabf1", "\\uabf2",
     "\\uabf3", "\\uabf4", "\\uabf5", "\\uabf6", "\\uabf7", "\\uabf8", "\\uabf9",
     "\\uff10", "\\uff11", "\\uff12", "\\uff13", "\\uff14", "\\uff15", "\\uff16",
     "\\uff17", "\\uff18", "\\uff19", "\\U000104a0", "\\U000104a1", "\\U000104a2",
     "\\U000104a3", "\\U000104a4", "\\U000104a5", "\\U000104a6", "\\U000104a7",
     "\\U000104a8", "\\U000104a9", "\\U00010d30", "\\U00010d31", "\\U00010d32",
     "\\U00010d33", "\\U00010d34", "\\U00010d35", "\\U00010d36", "\\U00010d37",
     "\\U00010d38", "\\U00010d39", "\\U00011066", "\\U00011067", "\\U00011068",
     "\\U00011069", "\\U0001106a", "\\U0001106b", "\\U0001106c", "\\U0001106d",
     "\\U0001106e", "\\U0001106f", "\\U000110f0", "\\U000110f1", "\\U000110f2",
     "\\U000110f3", "\\U000110f4", "\\U000110f5", "\\U000110f6", "\\U000110f7",
     "\\U000110f8", "\\U000110f9", "\\U00011136", "\\U00011137", "\\U00011138",
     "\\U00011139", "\\U0001113a", "\\U0001113b", "\\U0001113c", "\\U0001113d",
     "\\U0001113e", "\\U0001113f", "\\U000111d0", "\\U000111d1", "\\U000111d2",
     "\\U000111d3", "\\U000111d4", "\\U000111d5", "\\U000111d6", "\\U000111d7",
     "\\U000111d8", "\\U000111d9", "\\U000112f0", "\\U000112f1", "\\U000112f2",
     "\\U000112f3", "\\U000112f4", "\\U000112f5", "\\U000112f6", "\\U000112f7",
     "\\U000112f8", "\\U000112f9", "\\U00011450", "\\U00011451", "\\U00011452",
     "\\U00011453", "\\U00011454", "\\U00011455", "\\U00011456", "\\U00011457",
     "\\U00011458", "\\U00011459", "\\U000114d0", "\\U000114d1", "\\U000114d2",
     "\\U000114d3", "\\U000114d4", "\\U000114d5", "\\U000114d6", "\\U000114d7",
     "\\U000114d8", "\\U000114d9", "\\U00011650", "\\U00011651", "\\U00011652",
     "\\U00011653", "\\U00011654", "\\U00011655", "\\U00011656", "\\U00011657",
     "\\U00011658", "\\U00011659", "\\U000116c0", "\\U000116c1", "\\U000116c2",
     "\\U000116c3", "\\U000116c4", "\\U000116c5", "\\U000116c6", "\\U000116c7",
     "\\U000116c8", "\\U000116c9", "\\U00011730", "\\U00011731", "\\U00011732",
     "\\U00011733", "\\U00011734", "\\U00011735", "\\U00011736", "\\U00011737",
     "\\U00011738", "\\U00011739", "\\U000118e0", "\\U000118e1", "\\U000118e2",
     "\\U000118e3", "\\U000118e4", "\\U000118e5", "\\U000118e6", "\\U000118e7",
     "\\U000118e8", "\\U000118e9", "\\U00011950", "\\U00011951", "\\U00011952",
     "\\U00011953", "\\U00011954", "\\U00011955", "\\U00011956", "\\U00011957",
     "\\U00011958", "\\U00011959", "\\U00011c50", "\\U00011c51", "\\U00011c52",
     "\\U00011c53", "\\U00011c54", "\\U00011c55", "\\U00011c56", "\\U00011c57",
     "\\U00011c58", "\\U00011c59", "\\U00011d50", "\\U00011d51", "\\U00011d52",
     "\\U00011d53", "\\U00011d54", "\\U00011d55", "\\U00011d56", "\\U00011d57",
     "\\U00011d58", "\\U00011d59", "\\U00011da0", "\\U00011da1", "\\U00011da2",
     "\\U00011da3", "\\U00011da4", "\\U00011da5", "\\U00011da6", "\\U00011da7",
     "\\U00011da8", "\\U00011da9", "\\U00016a60", "\\U00016a61", "\\U00016a62",
     "\\U00016a63", "\\U00016a64", "\\U00016a65", "\\U00016a66", "\\U00016a67",
     "\\U00016a68", "\\U00016a69", "\\U00016ac0", "\\U00016ac1", "\\U00016ac2",
     "\\U00016ac3", "\\U00016ac4", "\\U00016ac5", "\\U00016ac6", "\\U00016ac7",
     "\\U00016ac8", "\\U00016ac9", "\\U00016b50", "\\U00016b51", "\\U00016b52",
     "\\U00016b53", "\\U00016b54", "\\U00016b55", "\\U00016b56", "\\U00016b57",
     "\\U00016b58", "\\U00016b59", "\\U0001d7ce", "\\U0001d7cf", "\\U0001d7d0",
     "\\U0001d7d1", "\\U0001d7d2", "\\U0001d7d3", "\\U0001d7d4", "\\U0001d7d5",
     "\\U0001d7d6", "\\U0001d7d7", "\\U0001d7d8", "\\U0001d7d9", "\\U0001d7da",
     "\\U0001d7db", "\\U0001d7dc", "\\U0001d7dd", "\\U0001d7de", "\\U0001d7df",
     "\\U0001d7e0", "\\U0001d7e1", "\\U0001d7e2", "\\U0001d7e3", "\\U0001d7e4",
     "\\U0001d7e5", "\\U0001d7e6", "\\U0001d7e7", "\\U0001d7e8", "\\U0001d7e9",
     "\\U0001d7ea", "\\U0001d7eb", "\\U0001d7ec", "\\U0001d7ed", "\\U0001d7ee",
     "\\U0001d7ef", "\\U0001d7f0", "\\U0001d7f1", "\\U0001d7f2", "\\U0001d7f3",
     "\\U0001d7f4", "\\U0001d7f5", "\\U0001d7f6", "\\U0001d7f7", "\\U0001d7f8",
     "\\U0001d7f9", "\\U0001d7fa", "\\U0001d7fb", "\\U0001d7fc", "\\U0001d7fd",
     "\\U0001d7fe", "\\U0001d7ff", "\\U0001e140", "\\U0001e141", "\\U0001e142",
     "\\U0001e143", "\\U0001e144", "\\U0001e145", "\\U0001e146", "\\U0001e147",
     "\\U0001e148", "\\U0001e149", "\\U0001e2f0", "\\U0001e2f1", "\\U0001e2f2",
     "\\U0001e2f3", "\\U0001e2f4", "\\U0001e2f5", "\\U0001e2f6", "\\U0001e2f7",
     "\\U0001e2f8", "\\U0001e2f9", "\\U0001e950", "\\U0001e951", "\\U0001e952",
     "\\U0001e953", "\\U0001e954", "\\U0001e955", "\\U0001e956", "\\U0001e957",
     "\\U0001e958", "\\U0001e959", "\\U0001fbf0", "\\U0001fbf1", "\\U0001fbf2",
     "\\U0001fbf3", "\\U0001fbf4", "\\U0001fbf5", "\\U0001fbf6", "\\U0001fbf7",
     "\\U0001fbf8", "\\U0001fbf9"}

\* \d
Digito == {"0", "1", "2", "3", "4", "5", "6", "7", "8", "9"} \cup DigitoOutros

\* a literal, written in lower case
Lit(s) == [i \in 1..Len(s) |-> [cs |-> Ambas(s[i]), min |-> 1, many |-> FALSE]]
\* \s+   \s*   \d+   \d*   c?
SpMais == <<[cs |-> Branco, min |-> 1, many |-> TRUE]>>
SpAst == <<[cs |-> Branco, min |-> 0, many |-> TRUE]>>
DigMais == <<[cs |-> Digito, min |-> 1, many |-> TRUE]>>
DigAst == <<[cs |-> Digito, min |-> 0, many |-> TRUE]>>
Opc(S) == <<[cs |-> UNION { Ambas(c) : c \in S }, min |-> 0, many |-> FALSE]>>

\* r'Lei\s+n?º?\s*(\d+\.?\d*/?-?\d*)'
PadraoLei ==
    << Lit(<<"l", "e", "i">>) \o SpMais \o Opc({"n"}) \o Opc({"^o"}) \o SpAst
       \o DigMais \o Opc({"."}) \o DigAst \o Opc({"/"}) \o Opc({"-"}) \o DigAst >>
\* r'artigo\s+(\d+[ºª]?)'
PadraoArtigo ==
    << Lit(<<"a", "r", "t", "i", "g", "o">>) \o SpMais \o DigMais \o Opc({"^o", "^a"}) >>
\* r'art\.\s*(\d+[ºª]?)'
PadraoArt ==
    << Lit(<<"a", "r", "t", ".">>) \o SpAst \o DigMais \o Opc({"^o", "^a"}) >>
\* r'Código\s+(Civil|Penal|de\s+Defesa\s+do\s+Consumidor)'
PadraoCodigo ==
    LET cod == Lit(<<"c", "o'", "d", "i", "g", "o">>) \o SpMais
    IN << cod \o Lit(<<"c", "i", "v", "i", "l">>),
          cod \o Lit(<<"p", "e", "n", "a", "l">>),
          cod \o Lit(<<"d", "e">>) \o SpMais \o Lit(<<"d", "e", "f", "e", "s", "a">>)
              \o SpMais \o Lit(<<"d", "o">>) \o SpMais
              \o Lit(<<"c", "o", "n", "s", "u", "m", "i", "d", "o", "r">>) >>
\* r'CDC'
PadraoCDC == << Lit(<<"c", "d", "c">>) >>
\* r'CC'
PadraoCC == << Lit(<<"c", "c">>) >>

padroes == <<PadraoLei, PadraoArtigo, PadraoArt, PadraoCodigo, PadraoCDC, PadraoCC>>

\* how many consecutive characters of txt, from position p, are in cs
RECURSIVE Corrida(_, _, _)
Corrida(cs, txt, p) ==
    IF p <= Len(txt) /\ txt[p] \in cs THEN 1 + Corrida(cs, txt, p + 1) ELSE 0

\* the position after the match of items[k..] at p, or 0 when there is none
RECURSIVE MatchItems(_, _, _, _)
MatchItems(items, k, txt, p) ==
    IF k > Len(items) THEN p
    ELSE LET it == items[k]
             n == Corrida(it.cs, txt, p)
             take == IF it.many THEN n ELSE IF n > 0 THEN 1 ELSE 0
         IN IF take < it.min THEN 0
            ELSE MatchItems(items, k + 1, txt, p + take)

\* the first alternative that matches at p decides
RECURSIVE MatchAlt(_, _, _, _)
MatchAlt(padrao, a, txt, p) ==
    IF a > Len(padrao) THEN 0
    ELSE LET e == MatchItems(padrao[a], 1, txt, p)
         IN IF e > 0 THEN e ELSE MatchAlt(padrao, a + 1, txt, p)

\* re.finditer: the non-overlapping matches, left to right
RECURSIVE FindIter(_, _, _)
FindIter(padrao, txt, p) ==
    IF p > Len(txt) THEN <<>>
    ELSE LET e == MatchAlt(padrao, 1, txt, p)
         IN IF e > p THEN <<[s |-> p, e |-> e]>> \o FindIter(padrao, txt, e)
            ELSE FindIter(padrao, txt, p + 1)

\* the dict appended for one match (posicao is Python's 0-based span)
Citacao(txt, m) ==
    LET g == SubSeq(txt, m.s, m.e - 1)
    IN [texto |-> g,
        posicao |-> <<m.s - 1, m.e - 1>>,
        tipo |-> IF Contains(g, TxtLei) THEN "lei" ELSE "artigo"]

CitacoesDe(padrao, txt) ==
    LET ms == FindIter(padrao, txt, 1)
    IN [j \in 1..Len(ms) |-> Citacao(txt, ms[j])]

RECURSIVE ExtrairDesde(_, _)
ExtrairDesde(k, txt) ==
    IF k > Len(padroes) THEN <<>>
    ELSE CitacoesDe(padroes[k], txt) \o ExtrairDesde(k + 1, txt)

extrair_citacoes_legais(texto) == ExtrairDesde(1, texto)

(***************************************************************************)
(* Values.  None is Python's None; a raised exception is carried as        *)
(* [raise |-> TRUE, erro |-> message]; a returned value as                 *)
(* [raise |-> FALSE, val |-> value].                                       *)
(***************************************************************************)
None == [tipo |-> "None"]

Raise(msg) == [raise |-> TRUE, erro |-> msg, val |-> None]
Ret(v) == [raise |-> FALSE, erro |-> "", val |-> v]

\* conteudo[:5000] and conteudo['conteudo'][:2000]
LimiteConteudo == 5000
LimiteTrecho == 2000

(***************************************************************************)
(* buscar_conteudo_lei.  What the portal answers to one call is the record *)
(*   busca   outcome of the search request   (requests.get, line 104)      *)
(*   item    the document has a <div class="item">                         *)
(*   a       that div has an <a>                                           *)
(*   href    the <a>'s href ("" when empty or missing)                     *)
(*   h3      that div has an <h3>; titulo is its text                      *)
(*   pagina  outcome of the request for href (requests.get, line 119)      *)
(*   tamanho length of the plain text of the page                          *)
(* A request is "ok", answers with an HTTP error status ("http_erro"), or  *)
(* raises ("erro_rede", "timeout").                                        *)
(***************************************************************************)
Levanta == {"erro_rede", "timeout"}
Desfechos == {"ok", "http_erro"} \cup Levanta

\* the body of the try block, lines 101-130
CorpoBusca(lei_id, portal) ==
    IF portal.busca \in Levanta THEN Raise(portal.busca)
    ELSE IF portal.busca = "http_erro" THEN Raise("HTTPError")
    ELSE IF ~portal.item THEN Ret(None)
    ELSE IF ~portal.a THEN Ret(None)
    ELSE IF portal.href = "" THEN Ret(None)
    ELSE IF portal.pagina \in Levanta THEN Raise(portal.pagina)
    ELSE IF ~portal.h3 THEN Raise("AttributeError")
    ELSE Ret([tipo |-> "dict",
              lei |-> lei_id,
              titulo |-> portal.titulo,
              link |-> portal.href,
              conteudo |-> Fatia(portal.tamanho, LimiteConteudo)])

\* the same body without the except clause of lines 132-134
BuscarSemExcept(lei_id, portal) == CorpoBusca(lei_id, portal)

\* the same function keeping the whole page text
BuscarSemCorte(lei_id, portal) ==
    LET r == CorpoBusca(lei_id, portal)
    IN IF r.raise THEN Ret(None)
       ELSE IF r.val = None THEN r
       ELSE Ret([r.val EXCEPT !.conteudo = portal.tamanho])

buscar_conteudo_lei(lei_id, portal) ==
    LET r == CorpoBusca(lei_id, portal)
    IN IF r.raise THEN Ret(None) ELSE r

Portal(busca, item, a, href, h3, pagina, tamanho) ==
    [busca |-> busca, item |-> item, a |-> a, href |-> href, h3 |-> h3,
     titulo |-> "Titulo", pagina |-> pagina, tamanho |-> tamanho]

Url == "https://portal/lei"

\* every answer of the portal, for the study of one call
Tamanhos == {0, 1999, 2000, 2001, 4999, 5000, 5001, MaxTamanho}
PortalTodos ==
    { Portal(b, it, a, h, h3, p, t) :
        b \in Desfechos, it \in BOOLEAN, a \in BOOLEAN, h \in {"", Url},
        h3 \in BOOLEAN, p \in Desfechos, t \in Tamanhos }

\* the answers a call gets inside the pipeline
PortalCasos ==
    { Portal("erro_rede", FALSE, FALSE, "", FALSE, "ok", 0),
      Portal("ok", TRUE, TRUE, Url, TRUE, "ok", 1500),
      Portal("ok", TRUE, TRUE, Url, TRUE, "ok", MaxTamanho) }

(***************************************************************************)
(* analisar_discrepancias.                                                 *)
(***************************************************************************)
\* lines 184-189: the law ids one citation adds to leis_identificadas
IdAnalise(cit) ==
    IF Contains(cit.texto, TxtLei) THEN {cit.texto}
    ELSE IF Contains(cit.texto, TxtCDC) THEN {TxtLei8078}
    ELSE IF Contains(cit.texto, TxtCodigoCivil) \/ Contains(cit.texto, TxtCC)
         THEN {TxtLei10406}
    ELSE {}

\* lines 182-189
LeisIdentificadas(cits) == UNION { IdAnalise(cits[j]) : j \in 1..Len(cits) }

\* lines 194-196: what one looked-up law adds to conteudo_leis (a header
\* naming the law, then at most 2000 characters of its content)
Anexar(conteudo, lei, ret) ==
    IF ret # None
    THEN Append(conteudo, [lei |-> lei, trecho |-> Fatia(ret.conteudo, LimiteTrecho)])
    ELSE conteudo

\* "Não foi possível buscar o conteúdo das leis."
Placeholder == "Nao foi possivel buscar o conteudo das leis."

\* the prompt built from an empty conteudo_leis, without lines 198-199
PromptSemPlaceholder(conteudo) == [texto |-> "", secoes |-> conteudo]

\* lines 198-199: the conteudo_leis handed to the prompt, either the fixed
\* sentence or the sections
ConteudoPrompt(conteudo) ==
    IF conteudo = <<>> THEN [texto |-> Placeholder, secoes |-> <<>>]
    ELSE [texto |-> "", secoes |-> conteudo]

(***************************************************************************)
(* The model's reply.  A reply either raises (erro # "") or is a text,     *)
(* given as its lines: "vazia" (nothing but the whitespace of JSON: space, *)
(* \t, \r), "branca" (whitespace only, with a character such as \f that    *)
(* str.strip() drops and json.loads rejects), "cerca" (a line starting     *)
(* with ```), "json" (one complete JSON document, v its value) or "texto"  *)
(* (anything else).  esq and dir tell what a line has at its left and      *)
(* right edge, around what its kind describes: "" (nothing), "json"        *)
(* (whitespace of JSON only) or "py" (whitespace with a character such as  *)
(* \f that only str.strip() takes).  JSON values: [t |-> "obj", campos |-> key :> value],  *)
(* [t |-> "lista", v |-> items], [t |-> "null"], [t |-> "str"].            *)
(***************************************************************************)
JLista(items) == [t |-> "lista", v |-> items]
JNull == [t |-> "null", v |-> <<>>]
JStr == [t |-> "str", v |-> <<>>]
JObj(campos) == [t |-> "obj", campos |-> campos, v |-> <<>>]

Linha(k) == [k |-> k, v |-> JNull, esq |-> "", dir |-> ""]
LinhaJson(v) == [k |-> "json", v |-> v, esq |-> "", dir |-> ""]
\* the line l with whitespace at its edges
ComBordas(l, esq, dir) == [l EXCEPT !.esq = esq, !.dir = dir]

Resposta(linhas) == [erro |-> "", linhas |-> linhas]
RespostaErro(msg) == [erro |-> msg, linhas |-> <<>>]

\* the lines str.strip() drops at both ends of a text
LinhasBrancas == {"vazia", "branca"}

\* the text without its leading and trailing whitespace-only lines
RECURSIVE SemLinhasBrancas(_)
SemLinhasBrancas(ls) ==
    IF ls # <<>> /\ ls[1].k \in LinhasBrancas THEN SemLinhasBrancas(Tail(ls))
    ELSE IF ls # <<>> /\ ls[Len(ls)].k \in LinhasBrancas
         THEN SemLinhasBrancas(SubSeq(ls, 1, Len(ls) - 1))
    ELSE ls

\* str.strip() on the lines of a text: the whitespace-only lines at both
\* ends go, and so does the whitespace at the left edge of the first line
\* left and at the right edge of the last
StripLinhas(ls) ==
    LET r == SemLinhasBrancas(ls)
    IN [j \in 1..Len(r) |->
           [r[j] EXCEPT !.esq = IF j = 1 THEN "" ELSE @,
                        !.dir = IF j = Len(r) THEN "" ELSE @]]

\* lines 211-212: '\n'.join(resultado.split('\n')[1:-1]) when fenced
SemCerca(ls) ==
    IF ls # <<>> /\ ls[1].k = "cerca" THEN SubSeq(ls, 2, Len(ls) - 1) ELSE ls

\* json.loads: one JSON document, possibly surrounded by the whitespace of
\* JSON (space, \t, \n, \r); any other character around it is an error
JsonLoads(ls) ==
    LET docs == { j \in 1..Len(ls) : ls[j].k = "json" }
    IN IF /\ Cardinality(docs) = 1
          /\ \A j \in 1..Len(ls) :
                ls[j].k \in {"json", "vazia"} /\ ls[j].esq # "py" /\ ls[j].dir # "py"
       THEN Ret(ls[CHOOSE j \in docs : TRUE].v)
       ELSE Raise("JSONDecodeError")

\* x['discrepancias']
Subscrito(x) ==
    IF x.t # "obj" THEN Raise("TypeError")
    ELSE IF "discrepancias" \notin DOMAIN x.campos THEN Raise("KeyError")
    ELSE Ret(x.campos["discrepancias"])

\* the body of the try block, lines 204-214
CorpoAnalise(resp) ==
    IF resp.erro # "" THEN Raise(resp.erro)
    ELSE LET j == JsonLoads(SemCerca(StripLinhas(resp.linhas)))
         IN IF j.raise THEN j ELSE Subscrito(j.val)

\* the same body without the except clause of lines 216-218
AnaliseSemExcept(resp) == CorpoAnalise(resp)

\* lines 203-218: what analisar_discrepancias returns for the model's reply
RetornoAnalise(resp) ==
    LET r == CorpoAnalise(resp)
    IN IF r.raise THEN Ret(JLista(<<>>)) ELSE r

\* one discrepancy as the prompt asks for it: a JSON object
D1 == JObj("tipo" :> JStr)

RespostasAnalise ==
    { RespostaErro("APITimeoutError"),
      Resposta(<<Linha("texto")>>),
      Resposta(<<LinhaJson(JObj("discrepancias" :> JLista(<<D1>>)))>>),
      Resposta(<<LinhaJson(JObj("discrepancias" :> JLista(<<>>)))>>),
      Resposta(<<Linha("vazia"), Linha("cerca"),
                 LinhaJson(JObj("discrepancias" :> JLista(<<D1>>))),
                 Linha("cerca"), Linha("vazia")>>),
      Resposta(<<Linha("cerca"), LinhaJson(JObj("discrepancias" :> JLista(<<D1>>)))>>),
      Resposta(<<LinhaJson(JObj("discrepancias" :> JLista(<<D1>>))), Linha("texto")>>),
      Resposta(<<LinhaJson(JObj("resultado" :> JLista(<<D1>>)))>>),
      Resposta(<<LinhaJson(JLista(<<D1>>))>>),
      Resposta(<<LinhaJson(JObj("discrepancias" :> JNull))>>),
      Resposta(<<LinhaJson(JObj("discrepancias" :> JStr))>>),
      Resposta(<<LinhaJson(JObj("discrepancias" :> D1))>>),
      Resposta(<<LinhaJson(JObj("discrepancias" :> JLista(<<D1, JStr>>)))>>),
      Resposta(<<LinhaJson(JObj("discrepancias" :> JLista(<<JNull>>)))>>),
      Resposta(<<Linha("cerca"), Linha("branca"),
                 LinhaJson(JObj("discrepancias" :> JLista(<<D1>>))), Linha("cerca")>>),
      Resposta(<<Linha("branca"),
                 LinhaJson(JObj("discrepancias" :> JLista(<<D1>>)))>>),
      Resposta(<<ComBordas(LinhaJson(JObj("discrepancias" :> JLista(<<D1>>))),
                           "json", "py")>>),
      Resposta(<<Linha("cerca"),
                 ComBordas(LinhaJson(JObj("discrepancias" :> JLista(<<D1>>))),
                           "json", "py"),
                 Linha("cerca")>>) }

(***************************************************************************)
(* simplificar_texto: chain.invoke(...).content.strip(), nothing caught.   *)
(***************************************************************************)
\* the same call with a fallback text instead of the exception
SimplificarComFallback(resp) ==
    IF resp.erro # "" THEN Ret(<<>>) ELSE Ret(Strip(resp.content))

simplificar_texto(resp) ==
    IF resp.erro # "" THEN Raise(resp.erro) ELSE Ret(Strip(resp.content))

RespostasSimplificar ==
    { [erro |-> "APIConnectionError", content |-> <<>>],
      [erro |-> "RateLimitError", content |-> <<>>],
      [erro |-> "", content |-> <<" ", "m", "u", "l", "t", "a", " ", "2", "%", "\r", "\n">>] }

(***************************************************************************)
(* processar_documento_completo, lines 254-270.                            *)
(***************************************************************************)
\* line 255
PareceLei(cit) ==
    \/ Contains(cit.texto, TxtLei)
    \/ Contains(cit.texto, TxtCDC)
    \/ Contains(cit.texto, TxtCodigo)

\* lines 256-260
LeiBusca(cit) ==
    IF Contains(cit.texto, TxtCDC) THEN TxtLei8078
    ELSE IF Contains(cit.texto, TxtCodigoCivil) THEN TxtLei10406
    ELSE cit.texto

\* lines 266-270
LeiEncontrada(conteudo) ==
    [nome |-> conteudo.titulo, link |-> conteudo.link, status |-> "Vigente"]

\* the same dict counting each distinct citation text once
ResultadoSemRepetidas(simplificado, discs, leis, cits) ==
    [textoSimplificado |-> simplificado,
     discrepancias |-> discs,
     leisEncontradas |-> leis,
     citacoesEncontradas |-> Cardinality({ cits[j].texto : j \in 1..Len(cits) })]

\* lines 272-277
Resultado(simplificado, discs, leis, cits) ==
    [textoSimplificado |-> simplificado,
     discrepancias |-> discs,
     leisEncontradas |-> leis,
     citacoesEncontradas |-> Len(cits)]

\* response_model=DocumentoResponse: discrepancias must be a list whose
\* items are all objects (List[Dict])
RespostaValida(res) ==
    /\ res.discrepancias.t = "lista"
    /\ \A n \in 1..Len(res.discrepancias.v) : res.discrepancias.v[n].t = "obj"

(***************************************************************************)
(* State.                                                                  *)
(***************************************************************************)
VARIABLES
    pc,                 \* position of the request in the code
    analisador,         \* the global analisador is set (startup found the key)
    texto,              \* documento.texto
    citacoes,           \* citacoes of processar_documento_completo
    pendentes,          \* laws of leis_identificadas the loop has yet to visit
    conteudo_leis,      \* the sections appended to conteudo_leis
    prompt_leis,        \* the conteudo_leis handed to the model
    resposta_llm,       \* the model's reply to the verification prompt
    discrepancias,      \* what analisar_discrepancias returned
    resposta_simpl,     \* the model's reply to the simplification prompt
    texto_simplificado, \* what simplificar_texto returned
    i,                  \* index of the citation the loop of line 254 is at
    leis_unicas,
    leis_encontradas,
    buscas,             \* the calls of buscar_conteudo_lei so far
    ultima_busca,       \* the call studied on its own (SpecBuscar): its law id,
                        \* the portal's answer, its result
    excecao,            \* the exception propagating out of the pipeline, or ""
    resultado,          \* what processar_documento_completo returned
    resposta            \* the HTTP response of the endpoint

vars ==
    <<pc, analisador, texto, citacoes, pendentes, conteudo_leis, prompt_leis,
      resposta_llm, discrepancias, resposta_simpl, texto_simplificado, i,
      leis_unicas, leis_encontradas, buscas, ultima_busca, excecao, resultado, resposta>>

SemResposta == [status |-> 0, detail |-> "", corpo |-> None]

Repouso ==
    /\ citacoes = <<>>
    /\ pendentes = {}
    /\ conteudo_leis = <<>>
    /\ prompt_leis = <<>>
    /\ resposta_llm = None
    /\ discrepancias = None
    /\ resposta_simpl = None
    /\ texto_simplificado = <<>>
    /\ i = 0
    /\ leis_unicas = {}
    /\ leis_encontradas = <<>>
    /\ buscas = <<>>
    /\ ultima_busca = None
    /\ excecao = ""
    /\ resultado = None
    /\ resposta = SemResposta

\* one request to /api/processar, after startup
Init ==
    /\ pc = "inicio"
    /\ analisador \in BOOLEAN
    /\ texto \in Textos
    /\ Repouso

\* one call of buscar_conteudo_lei and its entry in the log
Busca(lei, portal) == [lei |-> lei, portal |-> portal, ret |-> buscar_conteudo_lei(lei, portal)]
Registro(fase, cit, b) ==
    [fase |-> fase, cit |-> cit, lei |-> b.lei, ok |-> ~b.ret.raise /\ b.ret.val # None]

\* lines 323-324
Rejeitar400 ==
    /\ pc = "inicio"
    /\ texto = <<>>
    /\ resposta' = [status |-> 400, detail |-> "Texto nao fornecido", corpo |-> None]
    /\ pc' = "fim"
    /\ UNCHANGED <<analisador, texto, citacoes, pendentes, conteudo_leis, prompt_leis,
                   resposta_llm, discrepancias, resposta_simpl, texto_simplificado, i,
                   leis_unicas, leis_encontradas, buscas, ultima_busca, excecao, resultado>>

\* lines 326-327
Rejeitar500 ==
    /\ pc = "inicio"
    /\ texto # <<>>
    /\ ~analisador
    /\ resposta' = [status |-> 500,
                    detail |-> "Analisador nao inicializado. Configure OPENAI_API_KEY",
                    corpo |-> None]
    /\ pc' = "fim"
    /\ UNCHANGED <<analisador, texto, citacoes, pendentes, conteudo_leis, prompt_leis,
                   resposta_llm, discrepancias, resposta_simpl, texto_simplificado, i,
                   leis_unicas, leis_encontradas, buscas, ultima_busca, excecao, resultado>>

\* line 330 and line 247
Extrair ==
    /\ pc = "inicio"
    /\ texto # <<>>
    /\ analisador
    /\ citacoes' = extrair_citacoes_legais(texto)
    /\ pc' = "identificar"
    /\ UNCHANGED <<analisador, texto, pendentes, conteudo_leis, prompt_leis,
                   resposta_llm, discrepancias, resposta_simpl, texto_simplificado, i,
                   leis_unicas, leis_encontradas, buscas, ultima_busca, excecao, resultado, resposta>>

\* line 248 into lines 182-191
AnalisarIdentificar ==
    /\ pc = "identificar"
    /\ pendentes' = LeisIdentificadas(citacoes)
    /\ conteudo_leis' = <<>>
    /\ pc' = "analisar"
    /\ UNCHANGED <<analisador, texto, citacoes, prompt_leis,
                   resposta_llm, discrepancias, resposta_simpl, texto_simplificado, i,
                   leis_unicas, leis_encontradas, buscas, ultima_busca, excecao, resultado, resposta>>

\* lines 192-196: one iteration over the set, in whatever order the set yields
AnalisarBuscar ==
    /\ pc = "analisar"
    /\ \E lei \in pendentes, portal \in PortalCasos :
          LET b == Busca(lei, portal)
          IN /\ buscas' = Append(buscas, Registro("analisar", 0, b))
             /\ pendentes' = pendentes \ {lei}
             /\ IF b.ret.raise
                THEN /\ excecao' = b.ret.erro
                     /\ pc' = "erro"
                     /\ UNCHANGED conteudo_leis
                ELSE /\ conteudo_leis' = Anexar(conteudo_leis, lei, b.ret.val)
                     /\ UNCHANGED <<excecao, pc>>
    /\ UNCHANGED <<analisador, texto, citacoes, prompt_leis,
                   resposta_llm, discrepancias, resposta_simpl, texto_simplificado, i,
                   leis_unicas, leis_encontradas, ultima_busca, resultado, resposta>>

\* lines 198-218: the prompt, the model call, the parse, the return
AnalisarModelo ==
    /\ pc = "analisar"
    /\ pendentes = {}
    /\ \E resp \in RespostasAnalise :
          LET r == RetornoAnalise(resp)
          IN /\ prompt_leis' = ConteudoPrompt(conteudo_leis)
             /\ resposta_llm' = resp
             /\ IF r.raise
                THEN /\ excecao' = r.erro
                     /\ pc' = "erro"
                     /\ UNCHANGED discrepancias
                ELSE /\ discrepancias' = r.val
                     /\ pc' = "simplificar"
                     /\ UNCHANGED excecao
    /\ conteudo_leis' = <<>>
    /\ UNCHANGED <<analisador, texto, citacoes, pendentes,
                   resposta_simpl, texto_simplificado, i, leis_unicas,
                   leis_encontradas, buscas, ultima_busca, resultado, resposta>>

\* line 249, then lines 251-252
Simplificar ==
    /\ pc = "simplificar"
    /\ \E resp \in RespostasSimplificar :
          LET r == simplificar_texto(resp)
          IN /\ resposta_simpl' = resp
             /\ IF r.raise
                THEN /\ excecao' = r.erro
                     /\ pc' = "erro"
                     /\ UNCHANGED <<texto_simplificado, i>>
                ELSE /\ texto_simplificado' = r.val
                     /\ pc' = "leis"
                     /\ i' = 1
                     /\ UNCHANGED excecao
    /\ UNCHANGED <<analisador, texto, citacoes, pendentes, conteudo_leis, prompt_leis,
                   resposta_llm, discrepancias, leis_unicas,
                   leis_encontradas, buscas, ultima_busca, resultado, resposta>>

\* lines 254-262: a citation that needs no lookup
PularCitacao ==
    /\ pc = "leis"
    /\ i <= Len(citacoes)
    /\ ~PareceLei(citacoes[i]) \/ LeiBusca(citacoes[i]) \in leis_unicas
    /\ i' = i + 1
    /\ UNCHANGED <<pc, analisador, texto, citacoes, pendentes, conteudo_leis, prompt_leis,
                   resposta_llm, discrepancias, resposta_simpl, texto_simplificado, leis_unicas,
                   leis_encontradas, buscas, ultima_busca, excecao, resultado, resposta>>

\* lines 254-270: a citation whose law is looked up
BuscarCitacao ==
    /\ pc = "leis"
    /\ i <= Len(citacoes)
    /\ PareceLei(citacoes[i])
    /\ LeiBusca(citacoes[i]) \notin leis_unicas
    /\ \E portal \in PortalCasos :
          LET b == Busca(LeiBusca(citacoes[i]), portal)
          IN /\ buscas' = Append(buscas, Registro("leis", i, b))
             /\ leis_unicas' = leis_unicas \cup {b.lei}
             /\ IF b.ret.raise
                THEN /\ excecao' = b.ret.erro
                     /\ pc' = "erro"
                     /\ UNCHANGED <<leis_encontradas, i>>
                ELSE /\ leis_encontradas' =
                          IF b.ret.val # None
                          THEN Append(leis_encontradas, LeiEncontrada(b.ret.val))
                          ELSE leis_encontradas
                     /\ i' = i + 1
                     /\ UNCHANGED <<excecao, pc>>
    /\ UNCHANGED <<analisador, texto, citacoes, pendentes, conteudo_leis, prompt_leis,
                   resposta_llm, discrepancias, resposta_simpl, texto_simplificado,
                   ultima_busca, resultado, resposta>>

\* lines 272-277, then line 331 under response_model=DocumentoResponse
Retornar ==
    /\ pc = "leis"
    /\ i > Len(citacoes)
    /\ LET res == Resultado(texto_simplificado, discrepancias, leis_encontradas, citacoes)
       IN /\ resultado' = res
          /\ resposta' =
                IF RespostaValida(res)
                THEN [status |-> 200, detail |-> "", corpo |-> res]
                ELSE [status |-> 500, detail |-> "Internal Server Error", corpo |-> None]
    /\ pc' = "fim"
    /\ UNCHANGED <<analisador, texto, citacoes, pendentes, conteudo_leis, prompt_leis,
                   resposta_llm, discrepancias, resposta_simpl, texto_simplificado, i,
                   leis_unicas, leis_encontradas, buscas, ultima_busca, excecao>>

\* lines 332-333
Responder500 ==
    /\ pc = "erro"
    /\ resposta' = [status |-> 500, detail |-> excecao, corpo |-> None]
    /\ pc' = "fim"
    /\ UNCHANGED <<analisador, texto, citacoes, pendentes, conteudo_leis, prompt_leis,
                   resposta_llm, discrepancias, resposta_simpl, texto_simplificado, i,
                   leis_unicas, leis_encontradas, buscas, ultima_busca, excecao, resultado>>

Next ==
    \/ Rejeitar400
    \/ Rejeitar500
    \/ Extrair
    \/ AnalisarIdentificar
    \/ AnalisarBuscar
    \/ AnalisarModelo
    \/ Simplificar
    \/ PularCitacao
    \/ BuscarCitacao
    \/ Retornar
    \/ Responder500

Spec == Init /\ [][Next]_vars

(***************************************************************************)
(* buscar_conteudo_lei on its own: one call, for every answer of the       *)
(* portal.                                                                 *)
(***************************************************************************)
LeisConsulta == {TxtLei8078, TxtLei10406}

InitBuscar ==
    /\ pc = "buscar"
    /\ analisador = TRUE
    /\ texto = <<>>
    /\ Repouso

BuscarLei ==
    /\ pc = "buscar"
    /\ \E lei \in LeisConsulta, portal \in PortalTodos :
          /\ ultima_busca' = Busca(lei, portal)
          /\ buscas' = Append(buscas, Registro("buscar", 0, Busca(lei, portal)))
    /\ pc' = "buscou"
    /\ UNCHANGED <<analisador, texto, citacoes, pendentes, conteudo_leis, prompt_leis,
                   resposta_llm, discrepancias, resposta_simpl, texto_simplificado, i,
                   leis_unicas, leis_encontradas, excecao, resultado, resposta>>

\* lines 194-196 applied to the result of that call
AnexarTrecho ==
    /\ pc = "buscou"
    /\ ~ultima_busca.ret.raise
    /\ conteudo_leis' = Anexar(conteudo_leis, ultima_busca.lei, ultima_busca.ret.val)
    /\ pc' = "anexou"
    /\ UNCHANGED <<analisador, texto, citacoes, pendentes, prompt_leis,
                   resposta_llm, discrepancias, resposta_simpl, texto_simplificado, i,
                   leis_unicas, leis_encontradas, buscas, ultima_busca, excecao,
                   resultado, resposta>>

NextBuscar == BuscarLei \/ AnexarTrecho

SpecBuscar == InitBuscar /\ [][NextBuscar]_vars

(***************************************************************************)
(* Properties.                                                             *)
(***************************************************************************)
\* analisar_discrepancias has returned or raised
AnaliseFeita == resposta_llm # None

\* the text json.loads is given: the reply stripped, its fence removed
Carga(resp) == SemCerca(StripLinhas(resp.linhas))

ModeloFalhou(resp) == resp.erro # ""
NaoEhJson(resp) == resp.erro = "" /\ JsonLoads(Carga(resp)).raise
SemChave(resp) ==
    /\ resp.erro = ""
    /\ ~JsonLoads(Carga(resp)).raise
    /\ LET x == JsonLoads(Carga(resp)).val
       IN x.t # "obj" \/ "discrepancias" \notin DOMAIN x.campos

ErrosDaAnalise == {"APITimeoutError", "JSONDecodeError", "KeyError", "TypeError"}

\* C1: whenever the model call raises, the reply is not valid JSON, or the
\* parsed JSON has no discrepancias key, analisar_discrepancias returns the
\* empty list and raises nothing.
C1_AnaliseFalhaDevolveVazio ==
    (AnaliseFeita /\ (ModeloFalhou(resposta_llm) \/ NaoEhJson(resposta_llm)
                      \/ SemChave(resposta_llm)))
        => /\ discrepancias = JLista(<<>>)
           /\ excecao \notin ErrosDaAnalise
           /\ pc # "erro" \/ resposta_simpl # None

C1_Witness ==
    /\ pc = "simplificar"
    /\ SemChave(resposta_llm)
    /\ citacoes # <<>>
    /\ discrepancias = JLista(<<>>)

\* C2: the discrepancias returned by analisar_discrepancias, and so the one
\* of every result of processar_documento_completo, is a list.
C2_DiscrepanciasSempreLista ==
    /\ AnaliseFeita /\ discrepancias # None => discrepancias.t = "lista"
    /\ resultado # None => resultado.discrepancias.t = "lista"

\* the first request failed (it raised, or raise_for_status did), the second
\* request raised, or the container, its link, the link's target or its
\* heading is missing
BuscaFalhou(p) ==
    \/ p.busca # "ok"
    \/ p.pagina \in Levanta
    \/ ~p.item
    \/ ~p.a
    \/ p.href = ""
    \/ ~p.h3

\* C3: buscar_conteudo_lei returns None and raises nothing whenever one of
\* its two requests fails or times out or the expected HTML is missing.
C3_BuscaFalhaDevolveNone ==
    (ultima_busca # None /\ BuscaFalhou(ultima_busca.portal))
        => /\ ~ultima_busca.ret.raise
           /\ ultima_busca.ret.val = None

C3_Witness ==
    /\ pc = "buscou"
    /\ ultima_busca.portal.busca = "ok"
    /\ ultima_busca.portal.item
    /\ ultima_busca.portal.a
    /\ ultima_busca.portal.href # ""
    /\ ultima_busca.portal.pagina = "ok"
    /\ ~ultima_busca.portal.h3
    /\ ultima_busca.ret = Ret(None)

\* C4: a failure of the model call of simplificar_texto propagates: no
\* result is returned, no simplified text is substituted, and the endpoint
\* answers one error carrying the failure's message.
C4_SimplificacaoFalhaPropaga ==
    (resposta_simpl # None /\ resposta_simpl.erro # "")
        => /\ resultado = None
           /\ texto_simplificado = <<>>
           /\ excecao = resposta_simpl.erro
           /\ pc \in {"erro", "fim"}
           /\ pc = "fim" =>
                resposta = [status |-> 500, detail |-> resposta_simpl.erro,
                            corpo |-> None]

C4_Witness ==
    /\ pc = "fim"
    /\ resposta_simpl # None
    /\ resposta_simpl.erro = "RateLimitError"
    /\ citacoes # <<>>
    /\ discrepancias = JLista(<<D1>>)
    /\ resposta.status = 500
    /\ resposta.detail = "RateLimitError"

(***************************************************************************)
(* The mapping from citations to law ids as the specification words it:    *)
(* "CDC" or "Código de Defesa do Consumidor" give one fixed id, "Código    *)
(* Civil" or "CC" another, a citation with the word "Lei" keeps its text,  *)
(* any other citation gives no id.                                         *)
(***************************************************************************)
CanonicoSpec(cit) ==
    IF Contains(cit.texto, TxtCDC) \/ Contains(cit.texto, TxtCodigoConsumidor)
    THEN {TxtLei8078}
    ELSE IF Contains(cit.texto, TxtCodigoCivil) \/ Contains(cit.texto, TxtCC)
    THEN {TxtLei10406}
    ELSE IF Contains(cit.texto, TxtLei) THEN {cit.texto}
    ELSE {}

\* the id processar_documento_completo looks a citation up under, if any
IdProcessar(cit) == IF PareceLei(cit) THEN {LeiBusca(cit)} ELSE {}

Indices == 1..Len(citacoes)

MesmoId(a, b) ==
    /\ IdAnalise(a) = IdAnalise(b)
    /\ IdProcessar(a) = IdProcessar(b)
    /\ Cardinality(IdAnalise(a)) = 1
    /\ IdAnalise(a) = IdProcessar(a)

\* C5: in analisar_discrepancias and in processar_documento_completo alike,
\* "CDC" and "Código de Defesa do Consumidor" map to one id, "Código Civil"
\* and "CC" map to one id, and the two ids differ.
C5_CanonicoUnico ==
    \A j, k \in Indices :
        /\ (citacoes[j].texto = TxtCDC /\ citacoes[k].texto = TxtCodigoConsumidor)
              => MesmoId(citacoes[j], citacoes[k])
        /\ (citacoes[j].texto = TxtCodigoCivil /\ citacoes[k].texto = TxtCC)
              => MesmoId(citacoes[j], citacoes[k])
        /\ (citacoes[j].texto = TxtCDC /\ citacoes[k].texto = TxtCodigoCivil)
              => /\ IdAnalise(citacoes[j]) # IdAnalise(citacoes[k])
                 /\ IdProcessar(citacoes[j]) # IdProcessar(citacoes[k])

\* the lookups of the loop of line 254 that added an entry to leis_encontradas
Entradas == { n \in 1..Len(buscas) : buscas[n].fase = "leis" /\ buscas[n].ok }

\* C6: in a returned result no two entries of leisEncontradas come from
\* citations with the same canonical law id.
C6_UmaEntradaPorId ==
    resultado # None =>
        /\ Cardinality(Entradas) = Len(resultado.leisEncontradas)
        /\ \A m, n \in Entradas :
              LET a == CanonicoSpec(citacoes[buscas[m].cit])
                  b == CanonicoSpec(citacoes[buscas[n].cit])
              IN (a # {} /\ a = b) => m = n

IdsDerivaveis == UNION { CanonicoSpec(citacoes[j]) : j \in Indices }

\* C7: a returned result has at most as many leisEncontradas as there are
\* distinct canonical law ids among the extracted citations.
C7_LeisLimitadasPorIds ==
    resultado # None =>
        Len(resultado.leisEncontradas) <= Cardinality(IdsDerivaveis)

\* the number of matches of all patterns in a text
RECURSIVE Ocorrencias(_, _)
Ocorrencias(k, txt) ==
    IF k > Len(padroes) THEN 0
    ELSE Len(FindIter(padroes[k], txt, 1)) + Ocorrencias(k + 1, txt)

\* C8: the list extrair_citacoes_legais returns has one citation per
\* pattern match in the text; citacoesEncontradas is the length of that
\* list, and it is at least the number of leisEncontradas.
C8_ContagemBruta ==
    /\ pc = "identificar" => Len(citacoes) = Ocorrencias(1, texto)
    /\ resultado # None =>
          /\ resultado.citacoesEncontradas = Len(citacoes)
          /\ resultado.citacoesEncontradas >= Len(resultado.leisEncontradas)

C8_Witness ==
    /\ resultado # None
    /\ resultado.citacoesEncontradas = 2
    /\ Len(resultado.leisEncontradas) = 1
    /\ Cardinality({ citacoes[j].texto : j \in Indices }) = 1

\* every lookup of the request came back empty, and there was one
PortalForaDoAr == buscas # <<>> /\ \A n \in 1..Len(buscas) : ~buscas[n].ok

\* C9 as stated: with the portal unreachable and the simplification done,
\* the result has no leisEncontradas, no discrepancias and a simplified text.
C9_PortalForaSemDiscrepancias ==
    (resultado # None /\ PortalForaDoAr) =>
        /\ resultado.leisEncontradas = <<>>
        /\ resultado.discrepancias = JLista(<<>>)
        /\ resultado.textoSimplificado = Strip(resposta_simpl.content)

\* C9 as amended: with the portal unreachable and the simplification done,
\* the result has no leisEncontradas and a simplified text; the model was
\* still asked, with the fixed sentence in place of the laws, and
\* discrepancias is what its reply holds under the discrepancias key, or the
\* empty list when the call failed or the reply could not be used.
C9_PortalForaModeloConsultado ==
    (resultado # None /\ PortalForaDoAr) =>
        /\ resultado.leisEncontradas = <<>>
        /\ resultado.textoSimplificado = Strip(resposta_simpl.content)
        /\ prompt_leis = [texto |-> Placeholder, secoes |-> <<>>]
        /\ resultado.discrepancias =
              IF ModeloFalhou(resposta_llm) \/ NaoEhJson(resposta_llm)
                 \/ SemChave(resposta_llm)
              THEN JLista(<<>>)
              ELSE JsonLoads(Carga(resposta_llm)).val.campos["discrepancias"]

C9_Witness ==
    /\ resultado # None
    /\ PortalForaDoAr
    /\ Len(buscas) >= 2
    /\ resultado.discrepancias = JLista(<<D1>>)
    /\ resultado.leisEncontradas = <<>>
    /\ resultado.textoSimplificado # <<>>

\* C10: the conteudo of a fetched law has at most 5000 characters, and each
\* law's part of conteudo_leis at most 2000.
C10_ConteudoLimitado ==
    /\ (ultima_busca # None /\ ultima_busca.ret.val # None)
          => ultima_busca.ret.val.conteudo <= 5000
    /\ \A n \in 1..Len(conteudo_leis) : conteudo_leis[n].trecho <= 2000

C10_Witness ==
    /\ pc = "anexou"
    /\ ultima_busca.portal.tamanho > 5000
    /\ ultima_busca.ret.val # None
    /\ ultima_busca.ret.val.conteudo = 5000
    /\ Len(conteudo_leis) = 1
    /\ conteudo_leis[1].trecho = 2000

\* the lookups of the loop of line 254, in the order they were made
BuscasLeis == { n \in 1..Len(buscas) : buscas[n].fase = "leis" }

\* C11: while leisEncontradas is built, buscar_conteudo_lei is called at most
\* once for each canonical law id, whether the first call gave a content or
\* None: no later citation with the same canonical id is looked up again.
C11_UmaBuscaPorId ==
    \A m, n \in BuscasLeis :
        LET a == CanonicoSpec(citacoes[buscas[m].cit])
            b == CanonicoSpec(citacoes[buscas[n].cit])
        IN (a # {} /\ a = b) => m = n

\* this step calls buscar_conteudo_lei, from the given part of the code
NovaBusca(fase) ==
    /\ Len(buscas') = Len(buscas) + 1
    /\ buscas'[Len(buscas')].fase = fase

ExtracaoFeita == pc \notin {"inicio"}
ModeloChamado == resposta_llm' # resposta_llm
SimplificacaoChamada == resposta_simpl' # resposta_simpl

\* what each step of one request finds already done, and not yet done
PassoEmOrdem ==
    /\ (pc = "inicio" /\ pc' = "identificar") =>
          /\ buscas = <<>>
          /\ resposta_llm = None
          /\ resposta_simpl = None
    /\ NovaBusca("analisar") =>
          /\ ExtracaoFeita
          /\ resposta_llm = None
          /\ resposta_simpl = None
          /\ BuscasLeis = {}
    /\ ModeloChamado =>
          /\ ExtracaoFeita
          /\ resposta_llm = None
          /\ pendentes = {}
          /\ Len(buscas) = Cardinality(LeisIdentificadas(citacoes))
          /\ UNCHANGED buscas
          /\ resposta_simpl = None
          /\ BuscasLeis = {}
    /\ SimplificacaoChamada =>
          /\ resposta_llm # None
          /\ resposta_simpl = None
          /\ UNCHANGED buscas
          /\ BuscasLeis = {}
    /\ NovaBusca("leis") =>
          /\ resposta_llm # None
          /\ resposta_simpl # None
          /\ resposta_simpl.erro = ""
          /\ texto_simplificado = Strip(resposta_simpl.content)

\* C12: within one request the steps run one after another: the extraction;
\* every lookup of analisar_discrepancias and then its one model call; the
\* model call of simplificar_texto; and only then the lookups that build
\* leisEncontradas.  So no such lookup is made before simplificar_texto has
\* returned, and none at all when it failed.
C12_PassosEmOrdem == [][PassoEmOrdem]_vars

C12_Witness ==
    /\ resultado # None
    /\ Len(buscas) = 4
    /\ buscas[1].fase = "analisar"
    /\ buscas[2].fase = "analisar"
    /\ buscas[3].fase = "leis"
    /\ buscas[4].fase = "leis"
    /\ resposta_llm # None
    /\ resposta_simpl.erro = ""

=============================================================================
